---- MODULE Spec2Model ----
(***************************************************************************)
(* Model of WMCore.MicroService.DataStructs.Workflow: the block inventory  *)
(* (primaryBlocks, parentBlocks, childToParentBlocks), the parent dataset  *)
(* bookkeeping and the chunk planner getChunkBlocks.                       *)
(*                                                                         *)
(* Python dictionaries are functions whose DOMAIN is the key set.  The     *)
(* iteration order of a dictionary is not fixed by the code, so every      *)
(* place that iterates one draws the order from all permutations.  The     *)
(* module is Python 2 code: data.values() is a list, which line 379        *)
(* appends to.  The values of the raw child-to-parent map are sets, as     *)
(* the union of line 256 requires.                                         *)
(*                                                                         *)
(* A call that raises leaves the assignments made before the raise; ret    *)
(* records the name of the last call, whether it returned ("ok") or the    *)
(* exception it raised, and for getChunkBlocks the two lists returned and  *)
(* the values of its locals after the sort (line 293) and after the        *)
(* first-fit pass (line 319).                                              *)
(***************************************************************************)
EXTENDS Integers, Sequences, FiniteSets, TLC

(***************************************************************************)
(* Bounds of the model.                                                    *)
(***************************************************************************)
\* number of distinct primary block names the caller may pass
MaxPrimary == 3
\* largest block size, in bytes, the caller may pass
MaxSize == 2
\* largest numChunks passed to getChunkBlocks (the smallest is -1)
MaxChunks == 3

\* largest number of parent records appended to dataCampaignMap
MaxParentRecords == 1
\* largest number of setChildToParentBlocks calls on one Workflow
MaxLinkCalls == 2

BlockNames == <<"A", "B", "C", "D", "E", "F">>
PrimaryNames == {BlockNames[i] : i \in 1..MaxPrimary}
\* the block names of a primary and of a parent dataset with parentage
ChildNames == {"A", "B", "C"}
ParentNames == {"P1", "P2"}
ParentDatasetNames == {"/parent/a/RAW"}
Sizes == 0..MaxSize
PositiveSizes == 1..MaxSize
ChunkCounts == (-1)..MaxChunks

\* every dictionary with keys among names and values among sizes
Dicts(names, sizes) == UNION {[S -> sizes] : S \in SUBSET names}

\* the primary blocks of the end-to-end scenario of the planner
EndToEndBlocks ==
    [b \in {"A", "B", "C", "D", "E"} |->
        CASE b = "A" -> 50 [] b = "B" -> 40 [] b = "C" -> 30
          [] b = "D" -> 20 [] OTHER -> 10]

(***************************************************************************)
(* Helpers for Python built-ins.                                           *)
(***************************************************************************)
RECURSIVE SumOver(_, _)
\* sum(d[k] for k in S)
SumOver(d, S) ==
    IF S = {} THEN 0
    ELSE LET k == CHOOSE x \in S : TRUE IN d[k] + SumOver(d, S \ {k})

\* sum(d.values())
SumValues(d) == SumOver(d, DOMAIN d)

\* the orders in which a dictionary (or set) with key set S may be iterated
Orders(S) ==
    {o \in [1..Cardinality(S) -> S] : \A i, j \in DOMAIN o : i # j => o[i] # o[j]}

\* d.items() iterated in the order o: a list of (name, size) pairs
Items(d, o) == [i \in DOMAIN o |-> <<o[i], d[o[i]]>>]

\* list.pop(idx), 1-based
Pop(seq, idx) == SubSeq(seq, 1, idx - 1) \o SubSeq(seq, idx + 1, Len(seq))

\* insert item behind every element whose size is at least its own
InsertDesc(seq, item) ==
    LET before == {i \in DOMAIN seq : seq[i][2] >= item[2]}
        n == Cardinality(before)
    IN  SubSeq(seq, 1, n) \o <<item>> \o SubSeq(seq, n + 1, Len(seq))

\* insert item behind every element whose size is at most its own
InsertAsc(seq, item) ==
    LET before == {i \in DOMAIN seq : seq[i][2] <= item[2]}
        n == Cardinality(before)
    IN  SubSeq(seq, 1, n) \o <<item>> \o SubSeq(seq, n + 1, Len(seq))

RECURSIVE SortedAsc(_)
\* the sort without reverse=True
SortedAsc(items) ==
    IF items = <<>> THEN <<>>
    ELSE InsertAsc(SortedAsc(SubSeq(items, 1, Len(items) - 1)), items[Len(items)])

RECURSIVE SortedDesc(_)
\* sorted(items, key=operator.itemgetter(1), reverse=True): stable, so items of
\* equal size keep the order of the input
SortedDesc(items) ==
    IF items = <<>> THEN <<>>
    ELSE InsertDesc(SortedDesc(SubSeq(items, 1, Len(items) - 1)), items[Len(items)])

(***************************************************************************)
(* The state of one Workflow object (Workflow.__init__), and the outcome   *)
(* of the last call made on it; and the state of one PerformanceMonitor    *)
(* with its job, which are modelled at the end of the module.              *)
(***************************************************************************)
VARIABLES
    data,                  \* self.data: the request document
    inputDataset,          \* self.inputDataset
    parentDataset,         \* self.parentDataset
    pileupDatasets,        \* self.pileupDatasets
    campaigns,             \* self.campaigns
    dataCampaignMap,       \* self.dataCampaignMap: list of records
    primaryBlocks,         \* self.primaryBlocks: block name -> size
    parentBlocks,          \* self.parentBlocks: block name -> size
    childToParentBlocks,   \* self.childToParentBlocks: block name -> set of names
    secondarySummaries,    \* self.secondarySummaries: dataset name -> size
    ret,                   \* what the last call returned or raised
    linkCalls,             \* history: the setChildToParentBlocks calls made so far
    monitor,               \* the fields of one PerformanceMonitor object
    job                    \* the job the monitor watches: clock, step process, report

modelVars == <<data, inputDataset, pileupDatasets, campaigns>>
inventoryVars == <<primaryBlocks, parentBlocks, childToParentBlocks, secondarySummaries>>
\* the PerformanceMonitor and its job, which no method of the Workflow touches
runtimeVars == <<monitor, job>>
vars == <<data, inputDataset, parentDataset, pileupDatasets, campaigns, dataCampaignMap,
          primaryBlocks, parentBlocks, childToParentBlocks, secondarySummaries, ret,
          linkCalls, monitor, job>>

\* Python's None
None == "None"
\* no PerformanceMonitor exists where a Workflow is planned
NoMonitor == monitor = None /\ job = None
\* an empty dictionary
EmptyDict == [x \in {} |-> 0]
\* d[k] = v
Put(d, k, v) == [x \in DOMAIN d \cup {k} |-> IF x = k THEN v ELSE d[x]]
\* d.get(k, default)
Get(d, k, default) == IF k \in DOMAIN d THEN d[k] ELSE default
\* d.pop(k, None) for every k outside keep
Restrict(d, keep) == [x \in DOMAIN d \cap keep |-> d[x]]

\* the outcome of a call: the fields a call does not set keep these defaults
Outcome(op, status) ==
    [op |-> op, status |-> status, numChunks |-> 0,
     blockChunks |-> <<>>, sizeChunks |-> <<>>,
     sortedPrimary |-> <<>>, chunkSize |-> 0,
     fitChunks |-> <<>>, fitSizes |-> <<>>, leftovers |-> <<>>,
     arg |-> EmptyDict, before |-> EmptyDict, parent |-> ""]

(***************************************************************************)
(* Workflow.setDataCampaignMap and Workflow.setInputData                   *)
(***************************************************************************)
inputMap == [InputDataset |-> "primary", MCPileup |-> "secondary", DataPileup |-> "secondary"]
TaskKeys == <<"Task1", "Task2", "Task3">>
StepKeys == <<"Step1", "Step2", "Step3">>

\* Python's None where a task dictionary is expected
NoDict == [None |-> None]

\* the tasks the document lacks are left out of the list
InnerDictsPresent(reqData) ==
    IF "TaskChain" \in DOMAIN reqData \/ "StepChain" \in DOMAIN reqData
    THEN SelectSeq([i \in 1..Get(reqData, "TaskChain", Get(reqData, "StepChain", 0)) |->
                       Get(reqData, TaskKeys[i], Get(reqData, StepKeys[i], NoDict))],
                   LAMBDA item : item # NoDict)
    ELSE <<reqData>>

\* lines 99-105: the task dictionaries of a chain, or the document itself
InnerDicts(reqData) ==
    IF "TaskChain" \in DOMAIN reqData \/ "StepChain" \in DOMAIN reqData
    THEN [i \in 1..Get(reqData, "TaskChain", Get(reqData, "StepChain", 0)) |->
             Get(reqData, TaskKeys[i], Get(reqData, StepKeys[i], NoDict))]
    ELSE <<reqData>>

\* line 109: "key in item" raises TypeError when item is None, which it is for
\* a task the document lacks
ConstructionRaises(reqData) ==
    \E i \in DOMAIN InnerDicts(reqData) : InnerDicts(reqData)[i] = NoDict

RECURSIVE RoleRecordsTopCampaign(_, _, _, _, _)
\* the records of one task, each with the top-level campaign
RoleRecordsTopCampaign(reqData, item, keyOrder, k, acc) ==
    IF k > Len(keyOrder) THEN acc
    ELSE LET key == keyOrder[k] IN
         IF key \in DOMAIN item /\ item[key] # ""
         THEN RoleRecordsTopCampaign(reqData, item, keyOrder, k + 1,
                  Put(acc, item[key],
                      [type |-> inputMap[key], name |-> item[key],
                       campaign |-> Get(reqData, "Campaign", None)]))
         ELSE RoleRecordsTopCampaign(reqData, item, keyOrder, k + 1, acc)

RECURSIVE RoleRecords(_, _, _, _, _)
\* lines 109-113 for one task: the keys of inputMap in the order keyOrder
RoleRecords(reqData, item, keyOrder, k, acc) ==
    IF k > Len(keyOrder) THEN acc
    ELSE LET key == keyOrder[k] IN
         IF key \in DOMAIN item /\ item[key] # ""
         THEN RoleRecords(reqData, item, keyOrder, k + 1,
                  Put(acc, item[key],
                      [type |-> inputMap[key], name |-> item[key],
                       campaign |-> Get(item, "Campaign", Get(reqData, "Campaign", None))]))
         ELSE RoleRecords(reqData, item, keyOrder, k + 1, acc)

RECURSIVE TaskRecords(_, _, _, _, _)
\* lines 107-113: the dictionary keyed by dataset name, a later record of the
\* same name replacing an earlier one
TaskRecords(reqData, innerDicts, keyOrder, i, acc) ==
    IF i > Len(innerDicts) THEN acc
    ELSE TaskRecords(reqData, innerDicts, keyOrder, i + 1,
                     RoleRecords(reqData, innerDicts[i], keyOrder, 1, acc))

\* lines 114-116: the flat set of campaign names
TaskCampaigns(innerDicts) ==
    {innerDicts[i]["Campaign"] :
        i \in {j \in DOMAIN innerDicts :
                  "Campaign" \in DOMAIN innerDicts[j] /\ innerDicts[j]["Campaign"] # ""}}

RECURSIVE LastPrimary(_, _, _)
\* lines 137-139: the name of the last primary record met
LastPrimary(records, i, acc) ==
    IF i > Len(records) THEN acc
    ELSE LastPrimary(records, i + 1,
                     IF records[i].type = "primary" THEN records[i].name ELSE acc)

\* the names of all the records
AllNames(records) == {records[i].name : i \in DOMAIN records}

\* lines 140-141
SecondaryNames(records) ==
    {records[i].name : i \in {j \in DOMAIN records : records[j].type = "secondary"}}

\* lines 107-118: the lists data.values() may be, for every order in which the
\* keys of inputMap and the values of data may be iterated
RecordLists(reqData) ==
    UNION {LET byName == TaskRecords(reqData, InnerDicts(reqData), keyOrder, 1, EmptyDict) IN
           {[i \in DOMAIN valuesOrder |-> byName[valuesOrder[i]]] :
               valuesOrder \in Orders(DOMAIN byName)} :
           keyOrder \in Orders(DOMAIN inputMap)}

\* Workflow.__init__, lines 19-27 and 36-37: the fields parsed from reqData
WorkflowModel(reqData) ==
    \E records \in RecordLists(reqData) :
        /\ data = reqData
        /\ dataCampaignMap = records
        /\ campaigns = TaskCampaigns(InnerDicts(reqData))
        /\ inputDataset = LastPrimary(records, 1, "")
        /\ pileupDatasets = SecondaryNames(records)
        /\ parentDataset = ""

\* Workflow.__init__, lines 29-34: the block inventory starts empty
EmptyInventory ==
    /\ primaryBlocks = EmptyDict
    /\ parentBlocks = EmptyDict
    /\ childToParentBlocks = EmptyDict
    /\ secondarySummaries = EmptyDict

(***************************************************************************)
(* Workflow.getChunkBlocks                                                 *)
(***************************************************************************)
\* the target without the division by numChunks
ChunkSizeTotal(sortedPrimary, numChunks) ==
    SumOver([i \in DOMAIN sortedPrimary |-> sortedPrimary[i][2]], DOMAIN sortedPrimary)

\* line 293: the target size of a chunk
ChunkSize(sortedPrimary, numChunks) ==
    SumOver([i \in DOMAIN sortedPrimary |-> sortedPrimary[i][2]], DOMAIN sortedPrimary)
        \div numChunks

\* a block that would fill the chunk exactly to the target is refused
FitsBelow(thisChunkSize, blockSize, chunkSize) == thisChunkSize + blockSize < chunkSize

\* line 310: the block still fits under the target
Fits(thisChunkSize, blockSize, chunkSize) == thisChunkSize + blockSize <= chunkSize

RECURSIVE FillChunk(_, _, _, _, _)
\* lines 305-315: the scan of the remaining blocks for one chunk; idx is 1-based
FillChunk(sortedPrimary, idx, thisChunk, thisChunkSize, chunkSize) ==
    IF sortedPrimary = <<>> \/ idx > Len(sortedPrimary)
    THEN [thisChunk |-> thisChunk, thisChunkSize |-> thisChunkSize,
          sortedPrimary |-> sortedPrimary]
    ELSE IF Fits(thisChunkSize, sortedPrimary[idx][2], chunkSize)
    THEN FillChunk(Pop(sortedPrimary, idx), idx,
                   thisChunk \cup {sortedPrimary[idx][1]},
                   thisChunkSize + sortedPrimary[idx][2], chunkSize)
    ELSE FillChunk(sortedPrimary, idx + 1, thisChunk, thisChunkSize, chunkSize)

RECURSIVE FirstFitUntilEmpty(_, _, _, _, _, _)
\* the loop over the chunks stops as soon as no block is left
FirstFitUntilEmpty(i, numChunks, sortedPrimary, blockChunks, sizeChunks, chunkSize) ==
    IF i > numChunks \/ sortedPrimary = <<>>
    THEN [blockChunks |-> blockChunks, sizeChunks |-> sizeChunks,
          sortedPrimary |-> sortedPrimary]
    ELSE LET one == FillChunk(sortedPrimary, 1, {}, 0, chunkSize) IN
         FirstFitUntilEmpty(i + 1, numChunks, one.sortedPrimary,
                            Append(blockChunks, one.thisChunk),
                            Append(sizeChunks, one.thisChunkSize), chunkSize)

RECURSIVE FirstFitRunningSize(_, _, _, _, _, _)
\* the running size is not reset between the chunks: every scan starts from
\* the size the chunk before it reached
FirstFitRunningSize(i, numChunks, sortedPrimary, blockChunks, sizeChunks, chunkSize) ==
    IF i > numChunks
    THEN [blockChunks |-> blockChunks, sizeChunks |-> sizeChunks,
          sortedPrimary |-> sortedPrimary]
    ELSE LET before == IF sizeChunks = <<>> THEN 0 ELSE sizeChunks[Len(sizeChunks)]
             one == FillChunk(sortedPrimary, 1, {}, before, chunkSize)
         IN  FirstFitRunningSize(i + 1, numChunks, one.sortedPrimary,
                                 Append(blockChunks, one.thisChunk),
                                 Append(sizeChunks, one.thisChunkSize), chunkSize)

RECURSIVE FirstFit(_, _, _, _, _, _)
\* lines 298-317: one scan per chunk, chunks i..numChunks still to fill
FirstFit(i, numChunks, sortedPrimary, blockChunks, sizeChunks, chunkSize) ==
    IF i > numChunks
    THEN [blockChunks |-> blockChunks, sizeChunks |-> sizeChunks,
          sortedPrimary |-> sortedPrimary]
    ELSE LET one == FillChunk(sortedPrimary, 1, {}, 0, chunkSize) IN
         FirstFit(i + 1, numChunks, one.sortedPrimary,
                  Append(blockChunks, one.thisChunk),
                  Append(sizeChunks, one.thisChunkSize), chunkSize)

RECURSIVE FillChunkRejects(_, _, _, _, _)
\* lines 305-315 again, keeping what the scan of one chunk examined and did
\* not take: the block, its size and the running size of the chunk then
FillChunkRejects(sortedPrimary, idx, thisChunkSize, chunkSize, rejects) ==
    IF sortedPrimary = <<>> \/ idx > Len(sortedPrimary)
    THEN [sortedPrimary |-> sortedPrimary, rejects |-> rejects]
    ELSE IF Fits(thisChunkSize, sortedPrimary[idx][2], chunkSize)
    THEN FillChunkRejects(Pop(sortedPrimary, idx), idx,
                          thisChunkSize + sortedPrimary[idx][2], chunkSize, rejects)
    ELSE FillChunkRejects(sortedPrimary, idx + 1, thisChunkSize, chunkSize,
                          rejects \cup {[block |-> sortedPrimary[idx][1],
                                         blockSize |-> sortedPrimary[idx][2],
                                         thisChunkSize |-> thisChunkSize]})

RECURSIVE FirstFitRejects(_, _, _, _, _)
\* lines 298-317 again: for every chunk the blocks its scan did not take
FirstFitRejects(i, numChunks, sortedPrimary, chunkSize, rejects) ==
    IF i > numChunks
    THEN rejects
    ELSE LET one == FillChunkRejects(sortedPrimary, 1, 0, chunkSize, {}) IN
         FirstFitRejects(i + 1, numChunks, one.sortedPrimary, chunkSize,
                         Append(rejects, one.rejects))

\* every leftover block goes to the first chunk
NextChunkNumStuck(chunkNum, numChunks) == 1

\* lines 321 and 324-326: the chunk that gets the next leftover block
NextChunkNum(chunkNum, numChunks) == IF chunkNum = numChunks THEN 1 ELSE chunkNum + 1

\* the leftover blocks are forgotten
RoundRobinDrop(sortedPrimary, chunkNum, numChunks, blockChunks, sizeChunks) ==
    [blockChunks |-> blockChunks, sizeChunks |-> sizeChunks]

RECURSIVE RoundRobinNoSize(_, _, _, _, _)
\* the leftover blocks are placed but their sizes are not added
RoundRobinNoSize(sortedPrimary, chunkNum, numChunks, blockChunks, sizeChunks) ==
    IF sortedPrimary = <<>>
    THEN [blockChunks |-> blockChunks, sizeChunks |-> sizeChunks]
    ELSE RoundRobinNoSize(Tail(sortedPrimary), NextChunkNum(chunkNum, numChunks), numChunks,
                    [blockChunks EXCEPT ![chunkNum] = @ \cup {sortedPrimary[1][1]}],
                    sizeChunks)

RECURSIVE RoundRobin(_, _, _, _, _)
\* lines 320-326: the leftover blocks, one per chunk and round; chunkNum is 1-based
RoundRobin(sortedPrimary, chunkNum, numChunks, blockChunks, sizeChunks) ==
    IF sortedPrimary = <<>>
    THEN [blockChunks |-> blockChunks, sizeChunks |-> sizeChunks]
    ELSE RoundRobin(Tail(sortedPrimary), NextChunkNum(chunkNum, numChunks), numChunks,
                    [blockChunks EXCEPT ![chunkNum] = @ \cup {sortedPrimary[1][1]}],
                    [sizeChunks EXCEPT ![chunkNum] = @ + sortedPrimary[1][2]])

\* every parent block any child has, whatever the chunk
ParentSetOfAll(childParent, chunk) ==
    UNION {childParent[child] : child \in DOMAIN childParent}

\* lines 339-341: the parent blocks of the primary blocks of one chunk
ParentSet(childParent, chunk) == UNION {childParent[child] : child \in chunk}

RECURSIVE ChunkParentsSizePerChild(_, _, _)
\* the parent sizes added once per child that requires them
ChunkParentsSizePerChild(childParent, parentsSize, chunk) ==
    IF chunk = {} THEN 0
    ELSE LET child == CHOOSE c \in chunk : TRUE IN
         SumOver(parentsSize, childParent[child])
           + ChunkParentsSizePerChild(childParent, parentsSize, chunk \ {child})

\* lines 339-347: the size added to a chunk for the parent blocks of its set
ChunkParentsSize(childParent, parentsSize, chunk) ==
    SumOver(parentsSize, ParentSet(childParent, chunk))

\* lines 341 and 347: a dictionary lookup that raises KeyError
FoldRaises(childParent, parentsSize, blockChunks) ==
    \E chunkNum \in DOMAIN blockChunks :
        \/ \E child \in blockChunks[chunkNum] : child \notin DOMAIN childParent
        \/ \E child \in blockChunks[chunkNum] \cap DOMAIN childParent :
               \E parent \in childParent[child] : parent \notin DOMAIN parentsSize

\* a single chunk that takes the parent blocks whether a parent dataset is set or not
SingleChunkWithParents(primary, parents, parentName) ==
    [blockChunks |-> <<DOMAIN primary \cup DOMAIN parents>>,
     sizeChunks |-> <<SumValues(primary) + SumValues(parents)>>]

\* lines 281-289: a single chunk with everything
SingleChunk(primary, parents, parentName) ==
    [blockChunks |-> <<DOMAIN primary \cup (IF parentName # "" THEN DOMAIN parents ELSE {})>>,
     sizeChunks |-> <<SumValues(primary) + (IF parentName # "" THEN SumValues(parents) ELSE 0)>>]

\* lines 281-351: what getChunkBlocks(numChunks) returns or raises when the
\* items of primaryBlocks are iterated in the order itemOrder
ChunkBlocks(primary, parents, childParent, parentName, numChunks, itemOrder) ==
    IF numChunks <= 1
    THEN LET one == SingleChunk(primary, parents, parentName) IN
         [Outcome("getChunkBlocks", "ok") EXCEPT
             !.numChunks = numChunks,
             !.blockChunks = one.blockChunks, !.sizeChunks = one.sizeChunks]
    ELSE LET sortedPrimary == SortedDesc(Items(primary, itemOrder))
             chunkSize == ChunkSize(sortedPrimary, numChunks)
             fit == FirstFit(1, numChunks, sortedPrimary, <<>>, <<>>, chunkSize)
             all == RoundRobin(fit.sortedPrimary, 1, numChunks,
                               fit.blockChunks, fit.sizeChunks)
             base == [Outcome("getChunkBlocks", "ok") EXCEPT
                         !.numChunks = numChunks,
                         !.sortedPrimary = sortedPrimary, !.chunkSize = chunkSize,
                         !.fitChunks = fit.blockChunks, !.fitSizes = fit.sizeChunks,
                         !.leftovers = fit.sortedPrimary]
         IN  IF parentName = ""
             THEN [base EXCEPT !.blockChunks = all.blockChunks,
                               !.sizeChunks = all.sizeChunks]
             ELSE IF FoldRaises(childParent, parents, all.blockChunks)
             THEN [base EXCEPT !.status = "KeyError"]
             ELSE [base EXCEPT
                     !.blockChunks = [c \in DOMAIN all.blockChunks |->
                         all.blockChunks[c] \cup ParentSet(childParent, all.blockChunks[c])],
                     !.sizeChunks = [c \in DOMAIN all.sizeChunks |->
                         all.sizeChunks[c]
                           + ChunkParentsSize(childParent, parents, all.blockChunks[c])]]

\* the planner takes the blocks it has planned out of primaryBlocks
getChunkBlocksConsuming(numChunks) ==
    /\ \E itemOrder \in Orders(DOMAIN primaryBlocks) :
           ret' = ChunkBlocks(primaryBlocks, parentBlocks, childToParentBlocks,
                              parentDataset, numChunks, itemOrder)
    /\ primaryBlocks' = EmptyDict
    /\ UNCHANGED runtimeVars
    /\ UNCHANGED <<modelVars, parentDataset, dataCampaignMap, parentBlocks,
                   childToParentBlocks, secondarySummaries, linkCalls>>

\* getChunkBlocks(numChunks): the inventory is only read
getChunkBlocks(numChunks) ==
    /\ \E itemOrder \in Orders(DOMAIN primaryBlocks) :
           ret' = ChunkBlocks(primaryBlocks, parentBlocks, childToParentBlocks,
                              parentDataset, numChunks, itemOrder)
    /\ UNCHANGED runtimeVars
    /\ UNCHANGED <<modelVars, parentDataset, dataCampaignMap, inventoryVars, linkCalls>>

(***************************************************************************)
(* The setters of the model and of the block inventory.                    *)
(***************************************************************************)
\* lines 374-378: the campaign of the first primary record, None without one
\* the campaign of the first record, whatever its type
FirstCampaign(records) == IF records = <<>> THEN None ELSE records[1].campaign

PrimaryCampaign(records) ==
    LET prim == {i \in DOMAIN records : records[i].type = "primary"} IN
    IF prim = {} THEN None
    ELSE records[CHOOSE i \in prim : \A j \in prim : i <= j].campaign

\* newItem is bound by any record of the map
HasRecord(records) == records # <<>>

\* lines 374-375: the loop meets a primary record, so newItem is bound
HasPrimary(records) == \E i \in DOMAIN records : records[i].type = "primary"

\* setParentDataset(parent), with _updateDataCampaignMap: line 379 raises
\* UnboundLocalError when no record is primary, after line 169 has assigned
setParentDataset(parent) ==
    /\ Cardinality({i \in DOMAIN dataCampaignMap : dataCampaignMap[i].type = "parent"})
           < MaxParentRecords
    /\ parentDataset' = parent
    /\ IF HasPrimary(dataCampaignMap)
       THEN /\ dataCampaignMap' =
                   Append(dataCampaignMap,
                          [type |-> "parent", name |-> parent,
                           campaign |-> PrimaryCampaign(dataCampaignMap)])
            /\ ret' = [Outcome("setParentDataset", "ok") EXCEPT !.parent = parent]
       ELSE /\ dataCampaignMap' = dataCampaignMap
            /\ ret' = [Outcome("setParentDataset", "UnboundLocalError") EXCEPT
                          !.parent = parent]
    /\ UNCHANGED runtimeVars
    /\ UNCHANGED <<modelVars, inventoryVars, linkCalls>>

\* setPrimaryBlocks(blocksDict)
setPrimaryBlocks(blocksDict) ==
    /\ primaryBlocks' = blocksDict
    /\ ret' = Outcome("setPrimaryBlocks", "ok")
    /\ UNCHANGED runtimeVars
    /\ UNCHANGED <<modelVars, parentDataset, dataCampaignMap, parentBlocks,
                   childToParentBlocks, secondarySummaries, linkCalls>>

\* setParentBlocks(blocksDict)
setParentBlocks(blocksDict) ==
    /\ parentBlocks' = blocksDict
    /\ ret' = Outcome("setParentBlocks", "ok")
    /\ UNCHANGED runtimeVars
    /\ UNCHANGED <<modelVars, parentDataset, dataCampaignMap, primaryBlocks,
                   childToParentBlocks, secondarySummaries, linkCalls>>

\* setSecondarySummary(dsetName, dsetSize)
setSecondarySummary(dsetName, dsetSize) ==
    /\ secondarySummaries' = Put(secondarySummaries, dsetName, dsetSize)
    /\ ret' = Outcome("setSecondarySummary", "ok")
    /\ UNCHANGED runtimeVars
    /\ UNCHANGED <<modelVars, parentDataset, dataCampaignMap, primaryBlocks,
                   parentBlocks, childToParentBlocks, linkCalls>>

\* lines 251-254: some parent is not a key of parentBlocks, so line 254 runs;
\* it calls remove() without an argument, which raises TypeError
RemoveRaises(parents, parentsSize) == \E parent \in parents : parent \notin DOMAIN parentsSize

RECURSIVE LinkChildren(_, _, _, _, _, _, _)
\* lines 244-256: the loop over blocksDict.items() in the order childOrder, from
\* its i-th item on; live is the local set parentBlocks
LinkChildren(blocksDict, childOrder, i, primary, parentsSize, childParent, live) ==
    IF i > Len(childOrder)
    THEN [status |-> "ok", childToParentBlocks |-> childParent, live |-> live]
    ELSE LET child == childOrder[i] IN
         IF child \notin DOMAIN primary
         THEN LinkChildren(blocksDict, childOrder, i + 1, primary, parentsSize,
                           childParent, live)
         ELSE IF RemoveRaises(blocksDict[child], parentsSize)
         THEN [status |-> "TypeError", childToParentBlocks |-> childParent, live |-> live]
         ELSE LinkChildren(blocksDict, childOrder, i + 1, primary, parentsSize,
                           Put(childParent, child, blocksDict[child]),
                           live \cup blocksDict[child])

\* the prune keeps the parents of every entry, those of skipped children too
LinkedKeepingSkipped(blocksDict, childOrder, primary, parentsSize, childParent) ==
    LET linked == LinkChildren(blocksDict, childOrder, 1, primary, parentsSize,
                               childParent, {}) IN
    [status |-> linked.status,
     childToParentBlocks |-> linked.childToParentBlocks,
     parentBlocks |-> IF linked.status = "ok"
                      THEN Restrict(parentsSize,
                                    linked.live \cup UNION {blocksDict[c] : c \in DOMAIN blocksDict})
                      ELSE parentsSize]

\* lines 244-261: the inventory a call leaves when blocksDict.items() is iterated
\* in the order childOrder; the prune of lines 259-261 is reached only when the
\* loop has not raised
Linked(blocksDict, childOrder, primary, parentsSize, childParent) ==
    LET linked == LinkChildren(blocksDict, childOrder, 1, primary, parentsSize,
                               childParent, {}) IN
    [status |-> linked.status,
     childToParentBlocks |-> linked.childToParentBlocks,
     parentBlocks |-> IF linked.status = "ok"
                      THEN Restrict(parentsSize, linked.live)
                      ELSE parentsSize]

\* setChildToParentBlocks(blocksDict)
setChildToParentBlocks(blocksDict) ==
    /\ linkCalls < MaxLinkCalls
    /\ linkCalls' = linkCalls + 1
    /\ \E childOrder \in Orders(DOMAIN blocksDict) :
         LET linked == Linked(blocksDict, childOrder, primaryBlocks, parentBlocks,
                              childToParentBlocks) IN
         /\ childToParentBlocks' = linked.childToParentBlocks
         /\ parentBlocks' = linked.parentBlocks
         /\ ret' = [Outcome("setChildToParentBlocks", linked.status) EXCEPT
                       !.arg = blocksDict, !.before = parentBlocks]
    /\ UNCHANGED runtimeVars
    /\ UNCHANGED <<modelVars, parentDataset, dataCampaignMap, primaryBlocks,
                   secondarySummaries>>

(***************************************************************************)
(* The planner alone: the inventory holds primary blocks only.             *)
(***************************************************************************)
\* a request with an input dataset and a pileup
ReRecoDoc ==
    [RequestType |-> "ReReco", Campaign |-> "Camp1",
     InputDataset |-> "/prim/a/RAW", MCPileup |-> "/pu/b/RAW"]

InitChunk ==
    /\ WorkflowModel(ReRecoDoc)
    /\ primaryBlocks \in Dicts(PrimaryNames, Sizes) \cup {EndToEndBlocks}
    /\ parentBlocks = EmptyDict
    /\ childToParentBlocks = EmptyDict
    /\ secondarySummaries = EmptyDict
    /\ ret = Outcome("__init__", "ok")
    /\ linkCalls = 0
    /\ NoMonitor

NextChunk == \E numChunks \in ChunkCounts : getChunkBlocks(numChunks)

SpecChunk == InitChunk /\ [][NextChunk]_vars

(***************************************************************************)
(* Properties of the planner on primary blocks only.                       *)
(***************************************************************************)
\* the last call was getChunkBlocks(numChunks) with numChunks >= 2 and it returned
Planned == ret.op = "getChunkBlocks" /\ ret.status = "ok" /\ ret.numChunks >= 2
\* ... on a workflow without a parent dataset
PlannedPrimaryOnly == Planned /\ parentDataset = ""

SeqMax(seq) == CHOOSE m \in {seq[i] : i \in DOMAIN seq} : \A i \in DOMAIN seq : seq[i] <= m
SeqMin(seq) == CHOOSE m \in {seq[i] : i \in DOMAIN seq} : \A i \in DOMAIN seq : seq[i] >= m
\* the difference between the largest and the smallest chunk size
Spread(sizes) == SeqMax(sizes) - SeqMin(sizes)
\* the smallest spread any assignment of the blocks of d to n chunks has
BestSpread(d, n) ==
    LET spreads == {Spread([c \in 1..n |-> SumOver(d, {b \in DOMAIN d : f[b] = c})]) :
                       f \in [DOMAIN d -> 1..n]}
    IN  CHOOSE m \in spreads : \A x \in spreads : m <= x
\* the size of the largest block of d, 0 when d is empty
LargestBlock(d) ==
    IF DOMAIN d = {} THEN 0
    ELSE CHOOSE m \in {d[b] : b \in DOMAIN d} : \A b \in DOMAIN d : d[b] <= m
Abs(x) == IF x < 0 THEN -x ELSE x

\* C1: without a parent dataset and with numChunks >= 2 the returned chunks are
\* pairwise disjoint and their union is the key set of primaryBlocks
C1_EachBlockInOneChunk ==
    PlannedPrimaryOnly =>
        /\ \A i, j \in DOMAIN ret.blockChunks :
               i # j => ret.blockChunks[i] \cap ret.blockChunks[j] = {}
        /\ UNION {ret.blockChunks[i] : i \in DOMAIN ret.blockChunks} = DOMAIN primaryBlocks

\* a plan whose first-fit pass left blocks over, with blocks in several chunks
C1_Witness ==
    /\ PlannedPrimaryOnly
    /\ ret.leftovers # <<>>
    /\ Cardinality(DOMAIN primaryBlocks) >= 3
    /\ \E i, j \in DOMAIN ret.blockChunks :
           i # j /\ ret.blockChunks[i] # {} /\ ret.blockChunks[j] # {}

\* C2: without a parent dataset and with numChunks >= 2 the two lists are
\* index-aligned, sizes[i] is the sum of the primary sizes of the blocks of
\* chunks[i], and the sizes add up to the total size of primaryBlocks
C2_SizesMatchChunks ==
    PlannedPrimaryOnly =>
        /\ Len(ret.sizeChunks) = Len(ret.blockChunks)
        /\ \A i \in DOMAIN ret.blockChunks :
               /\ ret.blockChunks[i] \subseteq DOMAIN primaryBlocks
               /\ ret.sizeChunks[i] = SumOver(primaryBlocks, ret.blockChunks[i])
        /\ SumOver(ret.sizeChunks, DOMAIN ret.sizeChunks) = SumValues(primaryBlocks)

\* a plan with leftover blocks of positive size
C2_Witness ==
    /\ PlannedPrimaryOnly
    /\ ret.leftovers # <<>>
    /\ SumValues(primaryBlocks) >= 3
    /\ \E i \in DOMAIN ret.sizeChunks : ret.sizeChunks[i] > ret.chunkSize

\* C3 as stated: with numChunks >= 2 and no parent dataset no assignment of the
\* primary blocks to numChunks chunks has a smaller spread than the returned one
C3_SpreadIsMinimal ==
    PlannedPrimaryOnly =>
        Spread(ret.sizeChunks) <= BestSpread(primaryBlocks, ret.numChunks)

\* all blocks of d have the same size
SameSizes(d) == \A a, b \in DOMAIN d : d[a] = d[b]

\* C3 as amended: when all primary blocks have the same size, no assignment of
\* them to numChunks chunks has a smaller spread than the returned one
C3_SpreadIsMinimalForEqualBlocks ==
    (PlannedPrimaryOnly /\ SameSizes(primaryBlocks)) =>
        Spread(ret.sizeChunks) <= BestSpread(primaryBlocks, ret.numChunks)

\* equal blocks of positive size, fewer than chunks, so that all are leftovers
C3_Witness ==
    /\ PlannedPrimaryOnly
    /\ SameSizes(primaryBlocks)
    /\ Cardinality(DOMAIN primaryBlocks) >= 2
    /\ Len(ret.leftovers) >= 2
    /\ Spread(ret.sizeChunks) > 0

\* the end-to-end scenario: getChunkBlocks(2) on EndToEndBlocks returned
EndToEndPlanned ==
    PlannedPrimaryOnly /\ primaryBlocks = EndToEndBlocks /\ ret.numChunks = 2

\* C4 as stated: the scenario returns chunk 0 = {A, D} of size 70 and
\* chunk 1 = {B, C, E} of size 80
C4_EndToEndAsStated ==
    EndToEndPlanned =>
        /\ ret.blockChunks = <<{"A", "D"}, {"B", "C", "E"}>>
        /\ ret.sizeChunks = <<70, 80>>

\* C4 as amended: the target is 75 and the scenario returns chunk 0 = {A, D, E}
\* of size 80 and chunk 1 = {B, C} of size 70
C4_EndToEnd ==
    EndToEndPlanned =>
        /\ ret.chunkSize = 75
        /\ ret.blockChunks = <<{"A", "D", "E"}, {"B", "C"}>>
        /\ ret.sizeChunks = <<80, 70>>

\* the scenario has been planned, the block E being left over by the first fit
C4_Witness == EndToEndPlanned /\ ret.leftovers = <<(<<"E", 10>>)>>

\* C5: when the first-fit pass leaves no block over, every chunk size is within
\* the size of one primary block of the target floor(total / numChunks)
C5_WithinOneBlockOfTarget ==
    (PlannedPrimaryOnly /\ ret.leftovers = <<>>) =>
        \A i \in DOMAIN ret.sizeChunks :
            Abs(ret.sizeChunks[i] - (SumValues(primaryBlocks) \div ret.numChunks))
                <= LargestBlock(primaryBlocks)

\* a plan without leftovers of at least three blocks of positive size
C5_Witness ==
    /\ PlannedPrimaryOnly
    /\ ret.leftovers = <<>>
    /\ Cardinality(DOMAIN primaryBlocks) >= 3
    /\ \A b \in DOMAIN primaryBlocks : primaryBlocks[b] > 0

(***************************************************************************)
(* The life cycle of one Workflow: any sequence of calls.  The sizes of    *)
(* the blocks are the ones a data catalog reports for them.                *)
(***************************************************************************)
\* a request without an input dataset
PileupOnlyDoc == [RequestType |-> "ReReco", Campaign |-> "Camp1", MCPileup |-> "/pu/b/RAW"]

\* the documents a Workflow is constructed from
ReqDocs == {ReRecoDoc, PileupOnlyDoc}

\* the blocks of the primary and of the parent dataset in the catalog
PrimaryCatalog == [b \in {"A", "B"} |-> IF b = "A" THEN 2 ELSE 1]
ParentCatalog == [b \in ParentNames |-> IF b = "P1" THEN 1 ELSE 2]
\* the total size of the pileup dataset in the catalog
PileupCatalog == [d \in {"/pu/b/RAW"} |-> 3]

\* the block maps a caller resolves from a catalog
SubDicts(catalog) == {Restrict(catalog, S) : S \in SUBSET DOMAIN catalog}

\* every raw child-to-parent map over the names: the blocks it names may be
\* known to the inventory or not
RawMaps(children, parents) == UNION {[S -> SUBSET parents] : S \in SUBSET children}

Init ==
    /\ \E reqData \in ReqDocs : WorkflowModel(reqData)
    /\ EmptyInventory
    /\ ret = Outcome("__init__", "ok")
    /\ linkCalls = 0
    /\ NoMonitor

Next ==
    \/ \E parent \in ParentDatasetNames : setParentDataset(parent)
    \/ \E blocksDict \in SubDicts(PrimaryCatalog) : setPrimaryBlocks(blocksDict)
    \/ \E blocksDict \in SubDicts(ParentCatalog) : setParentBlocks(blocksDict)
    \/ \E blocksDict \in RawMaps(DOMAIN PrimaryCatalog, ParentNames) :
           setChildToParentBlocks(blocksDict)
    \/ \E dsetName \in DOMAIN PileupCatalog :
           setSecondarySummary(dsetName, PileupCatalog[dsetName])
    \/ \E numChunks \in ChunkCounts : getChunkBlocks(numChunks)

Spec == Init /\ [][Next]_vars

(***************************************************************************)
(* The planner on an inventory with parents: every inventory the setup     *)
(* sequence setPrimaryBlocks, setParentBlocks, setChildToParentBlocks      *)
(* leaves on a fresh Workflow, then setParentDataset and getChunkBlocks.   *)
(***************************************************************************)
InitPlan ==
    /\ WorkflowModel(ReRecoDoc)
    /\ \E primary \in Dicts(ChildNames, PositiveSizes),
          parentsSize \in SubDicts(ParentCatalog),
          blocksDict \in RawMaps(ChildNames, ParentNames) :
         \E childOrder \in Orders(DOMAIN blocksDict) :
           LET linked == Linked(blocksDict, childOrder, primary, parentsSize, EmptyDict) IN
           /\ primaryBlocks = primary
           /\ parentBlocks = linked.parentBlocks
           /\ childToParentBlocks = linked.childToParentBlocks
           /\ ret = Outcome("setChildToParentBlocks", linked.status)
    /\ secondarySummaries = EmptyDict
    /\ linkCalls = 1
    /\ NoMonitor

NextPlan ==
    \/ \E parent \in ParentDatasetNames : setParentDataset(parent)
    \/ \E numChunks \in 2..MaxChunks : getChunkBlocks(numChunks)

SpecPlan == InitPlan /\ [][NextPlan]_vars

(***************************************************************************)
(* Properties of the single chunk, of the parent folding and of the        *)
(* pruning of the parent blocks.                                           *)
(***************************************************************************)
\* C6: for numChunks <= 1 getChunkBlocks returns one chunk and one size: the
\* keys of primaryBlocks, plus the keys of parentBlocks exactly when a parent
\* dataset is set, and the sum of the sizes of those maps
C6_SingleChunk ==
    (ret.op = "getChunkBlocks" /\ ret.numChunks <= 1) =>
        /\ ret.status = "ok"
        /\ Len(ret.blockChunks) = 1
        /\ Len(ret.sizeChunks) = 1
        /\ ret.blockChunks[1] =
               IF parentDataset # "" THEN DOMAIN primaryBlocks \cup DOMAIN parentBlocks
               ELSE DOMAIN primaryBlocks
        /\ ret.sizeChunks[1] =
               IF parentDataset # "" THEN SumValues(primaryBlocks) + SumValues(parentBlocks)
               ELSE SumValues(primaryBlocks)

\* getChunkBlocks(0) or getChunkBlocks(-1) with a parent dataset and blocks of both kinds
C6_Witness ==
    /\ ret.op = "getChunkBlocks"
    /\ ret.numChunks <= 0
    /\ parentDataset # ""
    /\ DOMAIN primaryBlocks # {}
    /\ DOMAIN parentBlocks # {}
    /\ ret.sizeChunks[1] > SumValues(primaryBlocks)

\* the last call was getChunkBlocks(numChunks) with numChunks >= 2 on a workflow
\* with a parent dataset, and it returned
PlannedWithParents == Planned /\ parentDataset # ""
\* the primary blocks of the i-th chunk returned
PrimaryOf(i) == ret.blockChunks[i] \cap DOMAIN primaryBlocks
\* the primary blocks of the i-th chunk that require the parent block q
ChildrenOf(i, q) == {p \in PrimaryOf(i) : q \in childToParentBlocks[p]}

\* C7: with a parent dataset and numChunks >= 2 every chunk holds all the
\* parent blocks of its primary blocks and no other parent block, and the
\* union of the chunks is the keys of primaryBlocks and of the pruned parentBlocks
C7_ParentsFollowChildren ==
    PlannedWithParents =>
        /\ \A i \in DOMAIN ret.blockChunks :
               /\ \A p \in PrimaryOf(i) : childToParentBlocks[p] \subseteq ret.blockChunks[i]
               /\ ret.blockChunks[i] \ DOMAIN primaryBlocks
                      \subseteq UNION {childToParentBlocks[p] : p \in PrimaryOf(i)}
        /\ UNION {ret.blockChunks[i] : i \in DOMAIN ret.blockChunks}
               = DOMAIN primaryBlocks \cup DOMAIN parentBlocks

\* two chunks with primary blocks, one of them with a parent block the other lacks
C7_Witness ==
    /\ PlannedWithParents
    /\ \E i, j \in DOMAIN ret.blockChunks :
           /\ i # j
           /\ PrimaryOf(i) # {} /\ PrimaryOf(j) # {}
           /\ \E q \in DOMAIN parentBlocks :
                  q \in ret.blockChunks[i] /\ q \notin ret.blockChunks[j]

\* C8: with a parent dataset and numChunks >= 2 a parent block is in exactly
\* the chunks that hold a primary block requiring it, and every chunk size is
\* the sizes of its primary blocks plus, once each, the sizes of its parent blocks
C8_ParentsPerChunkOnce ==
    PlannedWithParents =>
        \A i \in DOMAIN ret.blockChunks :
            /\ \A q \in DOMAIN parentBlocks :
                   q \in ret.blockChunks[i] <=> ChildrenOf(i, q) # {}
            /\ ret.sizeChunks[i] =
                   SumOver(primaryBlocks, PrimaryOf(i))
                     + SumOver(parentBlocks, ret.blockChunks[i] \ DOMAIN primaryBlocks)

\* a parent block required by two primary blocks of one chunk and by a primary
\* block of another chunk
C8_Witness ==
    /\ PlannedWithParents
    /\ \E i, j \in DOMAIN ret.blockChunks :
           /\ i # j
           /\ \E q \in DOMAIN parentBlocks :
                  /\ Cardinality(ChildrenOf(i, q)) >= 2
                  /\ ChildrenOf(j, q) # {}
                  /\ parentBlocks[q] > 0

\* C9: after the first setChildToParentBlocks call on a Workflow the keys of
\* parentBlocks are exactly the blocks of the value sets of childToParentBlocks,
\* each with the size it had before the call
C9_ParentsExactlyReferenced ==
    (ret.op = "setChildToParentBlocks" /\ linkCalls = 1) =>
        /\ DOMAIN parentBlocks =
               UNION {childToParentBlocks[c] : c \in DOMAIN childToParentBlocks}
        /\ \A b \in DOMAIN parentBlocks :
               b \in DOMAIN ret.before /\ parentBlocks[b] = ret.before[b]

\* C10: setChildToParentBlocks(rawMap) completes, and for every child of rawMap
\* that is a primary block childToParentBlocks[child] is rawMap[child] without
\* the names that were no keys of parentBlocks
C10_UnknownParentsDropped ==
    ret.op = "setChildToParentBlocks" =>
        /\ ret.status = "ok"
        /\ \A child \in DOMAIN ret.arg \cap DOMAIN primaryBlocks :
               /\ child \in DOMAIN childToParentBlocks
               /\ childToParentBlocks[child] = ret.arg[child] \cap DOMAIN ret.before

\* the two claims above for the calls that did not raise
PruneWhenNoRaise ==
    (ret.op = "setChildToParentBlocks" /\ ret.status = "ok") =>
        /\ linkCalls = 1 => C9_ParentsExactlyReferenced
        /\ C10_UnknownParentsDropped

(***************************************************************************)
(* The linking of child blocks to parent blocks alone: a Workflow whose    *)
(* primary blocks are set from the catalog and whose parent blocks are all *)
(* those of the catalog or none, then calls of setChildToParentBlocks with *)
(* maps that also name a block C the primary dataset does not hold; a      *)
(* completed call leaves the parent blocks pruned for the next one.        *)
(***************************************************************************)
\* the blocks of the primary and of the parent dataset, by size
LinkPrimaryCatalog == [b \in {"A", "B"} |-> IF b = "A" THEN 10 ELSE 20]
LinkParentCatalog ==
    [b \in {"P1", "P2", "P3"} |-> CASE b = "P1" -> 5 [] b = "P2" -> 7 [] OTHER -> 9]
\* the children a raw map may name: a primary block and a block filtered out
LinkChildNames == {"A", "C"}

InitLink ==
    /\ WorkflowModel(ReRecoDoc)
    /\ EmptyInventory
    /\ ret = Outcome("__init__", "ok")
    /\ linkCalls = 0
    /\ NoMonitor

NextLink ==
    \/ \E blocksDict \in SubDicts(LinkPrimaryCatalog) : setPrimaryBlocks(blocksDict)
    \/ \E blocksDict \in {EmptyDict, LinkParentCatalog} : setParentBlocks(blocksDict)
    \/ \E blocksDict \in RawMaps(LinkChildNames, DOMAIN LinkParentCatalog) :
           setChildToParentBlocks(blocksDict)

SpecLink == InitLink /\ [][NextLink]_vars

\* the raw map of a call without the entries whose child is no primary block
WithoutSkipped(blocksDict) == Restrict(blocksDict, DOMAIN primaryBlocks)
\* the raw map {A: {P1, P3}, C: {P2}}
ExampleRawMap == [c \in {"A", "C"} |-> IF c = "A" THEN {"P1", "P3"} ELSE {"P2"}]

\* C11: a call of setChildToParentBlocks ends as the call without the entries
\* whose child is no key of primaryBlocks would: such an entry creates no key
\* in childToParentBlocks, and when the call completes the keys of parentBlocks
\* are those named by the entries of primary blocks alone; for primary
\* {A:10, B:20}, parents {P1:5, P2:7, P3:9} and the map {A:{P1,P3}, C:{P2}}
\* the call leaves childToParentBlocks = {A:{P1,P3}}, parentBlocks = {P1:5, P3:9}
C11_SkippedChildLeavesNoTrace ==
    [][ret'.op = "setChildToParentBlocks" /\ linkCalls' = linkCalls + 1 =>
          /\ \E childOrder \in Orders(DOMAIN WithoutSkipped(ret'.arg)) :
                 LET linked == Linked(WithoutSkipped(ret'.arg), childOrder, primaryBlocks,
                                      parentBlocks, childToParentBlocks) IN
                 /\ ret'.status = linked.status
                 /\ childToParentBlocks' = linked.childToParentBlocks
                 /\ parentBlocks' = linked.parentBlocks
          /\ \A child \in DOMAIN ret'.arg \ DOMAIN primaryBlocks :
                 child \in DOMAIN childToParentBlocks' <=> child \in DOMAIN childToParentBlocks
          /\ ret'.status = "ok" =>
                 /\ DOMAIN parentBlocks' =
                        DOMAIN parentBlocks
                          \cap UNION {ret'.arg[c] : c \in DOMAIN ret'.arg \cap DOMAIN primaryBlocks}
                 /\ \A b \in DOMAIN parentBlocks' : parentBlocks'[b] = parentBlocks[b]
          /\ (/\ primaryBlocks = LinkPrimaryCatalog
              /\ parentBlocks = LinkParentCatalog
              /\ childToParentBlocks = EmptyDict
              /\ ret'.arg = ExampleRawMap) =>
                 /\ ret'.status = "ok"
                 /\ childToParentBlocks' = [c \in {"A"} |-> {"P1", "P3"}]
                 /\ parentBlocks' = [b \in {"P1", "P3"} |-> IF b = "P1" THEN 5 ELSE 9]
      ]_vars

\* the call of the example has completed: C was skipped and P2, named by C
\* alone, is gone
C11_Witness ==
    /\ ret.op = "setChildToParentBlocks"
    /\ ret.status = "ok"
    /\ linkCalls = 1
    /\ ret.arg = ExampleRawMap
    /\ ret.before = LinkParentCatalog
    /\ primaryBlocks = LinkPrimaryCatalog
    /\ DOMAIN childToParentBlocks = {"A"}
    /\ DOMAIN parentBlocks = {"P1", "P3"}

(***************************************************************************)
(* Failures of the planner and of the setters, and what the planner leaves *)
(* of the inventory.                                                       *)
(***************************************************************************)
\* the inventory is internally consistent: no size is negative, every key of
\* childToParentBlocks is a primary block and every block of its value sets is
\* a parent block
ConsistentInventory ==
    /\ \A b \in DOMAIN primaryBlocks : primaryBlocks[b] >= 0
    /\ \A b \in DOMAIN parentBlocks : parentBlocks[b] >= 0
    /\ DOMAIN childToParentBlocks \subseteq DOMAIN primaryBlocks
    /\ \A c \in DOMAIN childToParentBlocks :
           childToParentBlocks[c] \subseteq DOMAIN parentBlocks

\* C12: on an internally consistent inventory getChunkBlocks returns a plan
\* and never raises, for every numChunks, with or without a parent dataset and
\* whether or not every primary block has an entry in childToParentBlocks
C12_PlannerNeverRaises ==
    (ret.op = "getChunkBlocks" /\ ConsistentInventory) => ret.status = "ok"

\* the claim above for the plans that need no entry that is missing: one chunk,
\* no parent dataset, or an entry for every primary block
PlannerRaisesOnMissingEntryOnly ==
    (/\ ret.op = "getChunkBlocks"
     /\ ConsistentInventory
     /\ \/ ret.numChunks <= 1
        \/ parentDataset = ""
        \/ DOMAIN primaryBlocks \subseteq DOMAIN childToParentBlocks) => ret.status = "ok"

\* C14: a call of setChildToParentBlocks with a non-empty map while
\* primaryBlocks and parentBlocks are both still empty fails with an error
C14_LinkBeforeSettersFails ==
    (/\ ret.op = "setChildToParentBlocks"
     /\ DOMAIN ret.arg # {}
     /\ DOMAIN primaryBlocks = {}
     /\ DOMAIN ret.before = {}) => ret.status # "ok"

(***************************************************************************)
(* The planner on every inventory the setters can leave: the blocks of the *)
(* catalog that were set last, and the links a call of                     *)
(* setChildToParentBlocks has stored before them; then setParentDataset,   *)
(* setSecondarySummary and getChunkBlocks in any order.                    *)
(***************************************************************************)
\* setPrimaryBlocks and setParentBlocks with all the blocks of the catalog,
\* setChildToParentBlocks with the links, then setPrimaryBlocks and
\* setParentBlocks with the blocks to plan
InitRead ==
    /\ \E reqData \in ReqDocs : WorkflowModel(reqData)
    /\ primaryBlocks \in SubDicts(PrimaryCatalog)
    /\ parentBlocks \in SubDicts(ParentCatalog)
    /\ childToParentBlocks \in RawMaps(DOMAIN PrimaryCatalog, ParentNames)
    /\ secondarySummaries = EmptyDict
    /\ ret = Outcome("setParentBlocks", "ok")
    /\ linkCalls = 1
    /\ NoMonitor

NextRead ==
    \/ \E parent \in ParentDatasetNames : setParentDataset(parent)
    \/ \E dsetName \in DOMAIN PileupCatalog :
           setSecondarySummary(dsetName, PileupCatalog[dsetName])
    \/ \E numChunks \in ChunkCounts : getChunkBlocks(numChunks)

SpecRead == InitRead /\ [][NextRead]_vars

\* C13: a call of getChunkBlocks leaves primaryBlocks, parentBlocks,
\* childToParentBlocks, secondarySummaries and dataCampaignMap as they were,
\* whatever numChunks is, and what it returns is what a single call with that
\* numChunks returns on that inventory, whichever calls came before
C13_PlannerLeavesInventory ==
    [][ret'.op = "getChunkBlocks" =>
          /\ UNCHANGED <<primaryBlocks, parentBlocks, childToParentBlocks,
                         secondarySummaries, dataCampaignMap>>
          /\ \E itemOrder \in Orders(DOMAIN primaryBlocks') :
                 ret' = ChunkBlocks(primaryBlocks', parentBlocks', childToParentBlocks',
                                    parentDataset', ret'.numChunks, itemOrder)
      ]_vars

\* a plan of two or more chunks with parent blocks has been returned on a
\* Workflow that holds blocks of both kinds, links, a pileup summary and a
\* parent record
C13_Witness ==
    /\ ret.op = "getChunkBlocks"
    /\ ret.status = "ok"
    /\ ret.numChunks >= 2
    /\ parentDataset # ""
    /\ Cardinality(DOMAIN primaryBlocks) >= 2
    /\ DOMAIN parentBlocks # {}
    /\ DOMAIN childToParentBlocks = DOMAIN primaryBlocks
    /\ DOMAIN secondarySummaries # {}
    /\ Len(dataCampaignMap) >= 3
    /\ \E i \in DOMAIN ret.blockChunks : ret.blockChunks[i] \cap DOMAIN parentBlocks # {}

(***************************************************************************)
(* The construction of a Workflow from a request document, single-task or  *)
(* chain, and the calls of setParentDataset on it.                         *)
(***************************************************************************)
\* the largest chain count of a document
MaxTasks == 2
\* the dataset names of the documents
DatasetNames == {"/prim/a/RAW", "/pu/b/RAW"}
\* what a document may hold under a role key: a dataset name or nothing
RoleValues == DatasetNames \cup {""}
\* the parent dataset names: a new name and a name the documents use
ModelParentNames == {"/parent/a/RAW", "/prim/a/RAW"}

\* the role keys of a single-task document: any of them, with any value
RoleDicts == UNION {[S -> RoleValues] : S \in SUBSET DOMAIN inputMap}
\* the role keys of a task of a chain: at most one of them
OneRoleDicts ==
    {EmptyDict} \cup {[k \in {key} |-> value] : key \in DOMAIN inputMap, value \in RoleValues}
\* a task of a chain, with a campaign of its own or without
TaskDicts == OneRoleDicts \cup {Put(d, "Campaign", "Camp2") : d \in OneRoleDicts}
\* a document with a top-level campaign or without
WithTopCampaign(d) == {d, Put(d, "Campaign", "Camp1")}

\* the single-task documents
SingleDocs == UNION {WithTopCampaign(Put(d, "RequestType", "ReReco")) : d \in RoleDicts}

\* the key of the i-th task of a chain
TaskName(chainKey, i) == IF chainKey = "TaskChain" THEN TaskKeys[i] ELSE StepKeys[i]

\* the chain document with the count under chainKey and the tasks given;
\* a task that is NoDict is not in the document
ChainDoc(chainKey, tasks) ==
    LET present == {i \in DOMAIN tasks : tasks[i] # NoDict} IN
    [k \in {"RequestType", chainKey} \cup {TaskName(chainKey, i) : i \in present} |->
        IF k = "RequestType" THEN chainKey
        ELSE IF k = chainKey THEN Len(tasks)
        ELSE tasks[CHOOSE i \in present : TaskName(chainKey, i) = k]]

\* the chain documents: a count of 1..MaxTasks, each task present or not
ChainDocs ==
    UNION {WithTopCampaign(ChainDoc(chainKey, tasks)) :
              chainKey \in {"TaskChain", "StepChain"},
              tasks \in UNION {[1..n -> TaskDicts \cup {NoDict}] : n \in 1..MaxTasks}}

ModelDocs == SingleDocs \cup ChainDocs

\* Workflow(reqName, reqData): the exception of setDataCampaignMap leaves
\* __init__, so the caller gets no object; the fields stand at lines 23-34
NewWorkflow(reqData) ==
    IF ConstructionRaises(reqData)
    THEN /\ data = reqData
         /\ dataCampaignMap = <<>>
         /\ campaigns = {}
         /\ inputDataset = ""
         /\ pileupDatasets = {}
         /\ parentDataset = ""
         /\ ret = Outcome("__init__", "TypeError")
    ELSE /\ WorkflowModel(reqData)
         /\ ret = Outcome("__init__", "ok")

\* there is an object to call
Constructed == ret.op # "__init__" \/ ret.status = "ok"

InitModel ==
    /\ \E reqData \in ModelDocs : NewWorkflow(reqData)
    /\ EmptyInventory
    /\ linkCalls = 0
    /\ NoMonitor

NextModel ==
    /\ Constructed
    /\ \E parent \in ModelParentNames : setParentDataset(parent)

SpecModel == InitModel /\ [][NextModel]_vars

(***************************************************************************)
(* Properties of setParentDataset and of the parsed document.              *)
(***************************************************************************)
\* the positions of the records of a type
RecordsOfType(type) == {i \in DOMAIN dataCampaignMap : dataCampaignMap[i].type = type}

\* C15: setParentDataset on a Workflow whose dataCampaignMap holds no primary
\* record fails with an error and appends no record
C15_ParentWithoutPrimaryFails ==
    [][(ret'.op = "setParentDataset" /\ RecordsOfType("primary") = {}) =>
          /\ ret'.status # "ok"
          /\ dataCampaignMap' = dataCampaignMap
      ]_vars

\* setParentDataset has failed on a Workflow with a pileup record only
C15_Witness ==
    /\ ret.op = "setParentDataset"
    /\ ret.status = "UnboundLocalError"
    /\ ret.parent = "/parent/a/RAW"
    /\ RecordsOfType("primary") = {}
    /\ RecordsOfType("secondary") # {}
    /\ RecordsOfType("parent") = {}

\* C16: setParentDataset(P) on a Workflow with a primary record completes and
\* appends one record; the record is {type: parent, name: P, campaign: C} with
\* C the campaign of a primary record, the records held before are unchanged,
\* and parentDataset is P
C16_ParentRecordAppended ==
    [][(ret'.op = "setParentDataset" /\ RecordsOfType("primary") # {}) =>
          /\ ret'.status = "ok"
          /\ Len(dataCampaignMap') = Len(dataCampaignMap) + 1
          /\ SubSeq(dataCampaignMap', 1, Len(dataCampaignMap)) = dataCampaignMap
          /\ LET new == dataCampaignMap'[Len(dataCampaignMap')] IN
             /\ new.type = "parent"
             /\ new.name = ret'.parent
             /\ \E i \in RecordsOfType("primary") : new.campaign = dataCampaignMap[i].campaign
          /\ parentDataset' = ret'.parent
      ]_vars

\* setParentDataset has completed on a chain whose primary record carries the
\* campaign of its task, beside a record with another campaign
C16_Witness ==
    /\ ret.op = "setParentDataset"
    /\ ret.status = "ok"
    /\ parentDataset = "/parent/a/RAW"
    /\ Len(dataCampaignMap) = 3
    /\ dataCampaignMap[3] = [type |-> "parent", name |-> "/parent/a/RAW", campaign |-> "Camp2"]
    /\ \E i \in RecordsOfType("primary") : dataCampaignMap[i].campaign = "Camp2"
    /\ \E i \in RecordsOfType("secondary") : dataCampaignMap[i].campaign = "Camp1"

\* C17: no two records of dataCampaignMap have the same dataset name, after
\* construction and after every sequence of setParentDataset calls
C17_NamesUnique ==
    \A i, j \in DOMAIN dataCampaignMap :
        dataCampaignMap[i].name = dataCampaignMap[j].name => i = j

\* the names are unique as long as no parent record has been appended
NamesUniqueAfterConstruction == RecordsOfType("parent") = {} => C17_NamesUnique

\* the tasks of the document of a constructed Workflow: the document itself,
\* or Task1..TaskN (Step1..StepN) of a chain that declares the count N
TasksOf(doc) ==
    IF "TaskChain" \in DOMAIN doc THEN [i \in 1..doc["TaskChain"] |-> doc[TaskKeys[i]]]
    ELSE IF "StepChain" \in DOMAIN doc THEN [i \in 1..doc["StepChain"] |-> doc[StepKeys[i]]]
    ELSE <<doc>>
\* the task roles the document populates: <<task, key>> with a non-empty name
RolesOf(doc) ==
    {role \in (DOMAIN TasksOf(doc)) \X {"InputDataset", "MCPileup", "DataPileup"} :
        /\ role[2] \in DOMAIN TasksOf(doc)[role[1]]
        /\ TasksOf(doc)[role[1]][role[2]] # ""}
\* the dataset name of a task role
RoleName(doc, role) == TasksOf(doc)[role[1]][role[2]]
\* the record the claim expects for a task role: the campaign is the task's,
\* or the top-level one when the task declares none
RoleRecord(doc, role) ==
    LET task == TasksOf(doc)[role[1]] IN
    [type |-> IF role[2] = "InputDataset" THEN "primary" ELSE "secondary",
     name |-> RoleName(doc, role),
     campaign |-> IF "Campaign" \in DOMAIN task THEN task["Campaign"]
                  ELSE IF "Campaign" \in DOMAIN doc THEN doc["Campaign"]
                  ELSE None]
\* the number of records of dataCampaignMap that are rec
CountOf(rec) == Cardinality({i \in DOMAIN dataCampaignMap : dataCampaignMap[i] = rec})
\* the task roles that use one dataset name agree on type and campaign
RolesAgree(doc) ==
    \A r1, r2 \in RolesOf(doc) :
        RoleName(doc, r1) = RoleName(doc, r2) => RoleRecord(doc, r1) = RoleRecord(doc, r2)

\* C18 as stated: for every task role the document populates dataCampaignMap
\* holds exactly one record with the type of the role, its name and the
\* campaign of the task or else of the document, also when several task roles
\* use one dataset name
C18_OneRecordPerRole ==
    Constructed => \A role \in RolesOf(data) : CountOf(RoleRecord(data, role)) = 1

\* C18: dataCampaignMap holds, beside the parent records, exactly one record
\* for every dataset name the document populates, and it is the record of a
\* task role of that name in the last task that uses the name; so every task
\* role has exactly one record with its type, name and campaign when the task
\* roles of one name agree on type and campaign
C18_OneRecordPerName ==
    Constructed =>
        /\ \A i \in DOMAIN dataCampaignMap \ RecordsOfType("parent") :
               \E role \in RolesOf(data) :
                   /\ dataCampaignMap[i] = RoleRecord(data, role)
                   /\ \A other \in RolesOf(data) :
                          RoleName(data, other) = RoleName(data, role) => other[1] <= role[1]
        /\ \A role \in RolesOf(data) :
               Cardinality({i \in DOMAIN dataCampaignMap \ RecordsOfType("parent") :
                               dataCampaignMap[i].name = RoleName(data, role)}) = 1
        /\ RolesAgree(data) =>
               \A role \in RolesOf(data) : CountOf(RoleRecord(data, role)) = 1

\* a chain of two tasks: the first has an input dataset and no campaign of its
\* own, the second a pileup and its own campaign; each has its record
C18_Witness ==
    /\ Constructed
    /\ "TaskChain" \in DOMAIN data
    /\ "Campaign" \in DOMAIN data
    /\ RolesOf(data) = {<<1, "InputDataset">>, <<2, "MCPileup">>}
    /\ RolesAgree(data)
    /\ "Campaign" \notin DOMAIN data["Task1"]
    /\ "Campaign" \in DOMAIN data["Task2"]
    /\ CountOf([type |-> "primary", name |-> "/prim/a/RAW", campaign |-> "Camp1"]) = 1
    /\ CountOf([type |-> "secondary", name |-> "/pu/b/RAW", campaign |-> "Camp2"]) = 1

\* the names of the records of a type
NamesOfType(type) == {dataCampaignMap[i].name : i \in RecordsOfType(type)}

\* C19 as stated: dataCampaignMap never holds more than one primary record,
\* inputDataset is the name of that record, or empty when there is none, and
\* pileupDatasets is the set of the names of the secondary records
C19_DerivedFieldsOfUniquePrimary ==
    /\ Cardinality(RecordsOfType("primary")) <= 1
    /\ inputDataset = (IF RecordsOfType("primary") = {} THEN ""
                       ELSE CHOOSE name \in NamesOfType("primary") : TRUE)
    /\ pileupDatasets = NamesOfType("secondary")

\* C19: inputDataset is empty when dataCampaignMap holds no primary record
\* and the name of a primary record otherwise, so the name of the primary
\* record when there is one only; pileupDatasets is the set of the names of
\* the secondary records
C19_DerivedFields ==
    /\ RecordsOfType("primary") = {} => inputDataset = ""
    /\ RecordsOfType("primary") # {} => inputDataset \in NamesOfType("primary")
    /\ pileupDatasets = NamesOfType("secondary")

\* a Workflow with one primary record and a pileup record, after a parent
\* record was appended
C19_Witness ==
    /\ ret.op = "setParentDataset"
    /\ ret.status = "ok"
    /\ Cardinality(RecordsOfType("primary")) = 1
    /\ inputDataset = "/prim/a/RAW"
    /\ pileupDatasets = {"/pu/b/RAW"}
    /\ RecordsOfType("parent") # {}

\* the chain count the document declares, 0 when it declares none
ChainCount(doc) ==
    IF "TaskChain" \in DOMAIN doc THEN doc["TaskChain"]
    ELSE IF "StepChain" \in DOMAIN doc THEN doc["StepChain"]
    ELSE 0
\* the tasks 1..N of which the document has neither Task<i> nor Step<i>
MissingTasks(doc) ==
    {i \in 1..ChainCount(doc) : TaskKeys[i] \notin DOMAIN doc /\ StepKeys[i] \notin DOMAIN doc}

\* C20: when the document declares a chain count N and lacks Task<i> and
\* Step<i> for some i in 1..N, the construction fails with an error and there
\* is no Workflow: no record was parsed and no method is ever called
C20_MissingTaskFailsConstruction ==
    MissingTasks(data) # {} =>
        /\ ret.op = "__init__"
        /\ ret.status # "ok"
        /\ ~Constructed
        /\ dataCampaignMap = <<>>
        /\ inputDataset = "" /\ pileupDatasets = {} /\ parentDataset = ""

\* the construction has failed on a chain of two tasks of which the first is
\* present, with an input dataset, and the second is not
C20_Witness ==
    /\ ret.op = "__init__"
    /\ ret.status = "TypeError"
    /\ "TaskChain" \in DOMAIN data
    /\ data["TaskChain"] = 2
    /\ "Task1" \in DOMAIN data
    /\ "InputDataset" \in DOMAIN data["Task1"]
    /\ MissingTasks(data) = {2}

\* ---------------------------------------------------------------------------
\* C21: with an empty primaryBlocks map and numChunks >= 2 getChunkBlocks
\* returns exactly numChunks chunks, all empty, and exactly numChunks sizes,
\* all zero, whether or not a parent dataset is declared (lines 292-351).
C21_EmptyPrimaryGivesEmptyChunks ==
    (ret.op = "getChunkBlocks" /\ ret.numChunks >= 2 /\ primaryBlocks = EmptyDict)
        => /\ ret.status = "ok"
           /\ Len(ret.blockChunks) = ret.numChunks
           /\ Len(ret.sizeChunks) = ret.numChunks
           /\ \A i \in 1..ret.numChunks :
                  ret.blockChunks[i] = {} /\ ret.sizeChunks[i] = 0

\* three empty chunks planned while a parent dataset is declared and parent
\* blocks and a child-to-parent map are in the inventory
C21_Witness ==
    /\ ret.op = "getChunkBlocks"
    /\ ret.numChunks = 3
    /\ primaryBlocks = EmptyDict
    /\ parentDataset # ""
    /\ parentBlocks # EmptyDict
    /\ ret.blockChunks = <<{}, {}, {}>>
    /\ ret.sizeChunks = <<0, 0, 0>>

\* ---------------------------------------------------------------------------
\* C22: in getChunkBlocks with numChunks >= 2 and sizes >= 0, at the end of the
\* first-fit pass and before any leftover block is distributed, the running
\* size of every one of the numChunks slots is at most the target
\* floor(totalPrimarySize / numChunks), and every block still unassigned did
\* not fit the slot it was examined for (lines 293 and 301-317).
\* the blocks the scans of the last plan examined and did not take, per slot
RejectsOfPlan == FirstFitRejects(1, ret.numChunks, ret.sortedPrimary, ret.chunkSize, <<>>)

C22_FirstFitStaysUnderTarget ==
    (ret.op = "getChunkBlocks" /\ ret.numChunks >= 2)
        => /\ ret.chunkSize = SumValues(primaryBlocks) \div ret.numChunks
           /\ Len(ret.fitSizes) = ret.numChunks
           /\ Len(ret.fitChunks) = ret.numChunks
           /\ \A i \in 1..ret.numChunks :
                  /\ ret.fitSizes[i] = SumOver(primaryBlocks, ret.fitChunks[i])
                  /\ ret.fitSizes[i] <= ret.chunkSize
                  \* what the scan of slot i refused did not fit it then
                  /\ \A r \in RejectsOfPlan[i] :
                         r.thisChunkSize + r.blockSize > ret.chunkSize
                  \* every block still unassigned was examined for slot i
                  /\ \A k \in DOMAIN ret.leftovers :
                         \E r \in RejectsOfPlan[i] :
                            /\ r.block = ret.leftovers[k][1]
                            /\ r.blockSize = primaryBlocks[r.block]

\* a plan with a leftover block: sizes 2 and 1 into 2 chunks of target 1; the
\* pass puts the block of size 1 into the first slot and leaves the other one
C22_Witness ==
    /\ ret.op = "getChunkBlocks"
    /\ ret.numChunks = 2
    /\ ret.chunkSize = 1
    /\ Len(ret.leftovers) = 1
    /\ ret.leftovers[1][2] = 2
    /\ ret.fitSizes = <<1, 0>>

\* ---------------------------------------------------------------------------
\* C27: when setParentDataset fails because dataCampaignMap has no primary
\* record, the Workflow state is unchanged: parentDataset is still empty
\* afterwards, so a later getChunkBlocks still treats the workflow as having
\* no parent dataset (lines 164-170, 281-289 and 331-332).
C27_FailedParentLeavesNoParent ==
    RecordsOfType("primary") = {}
        => /\ parentDataset = ""
           /\ (ret.op = "getChunkBlocks" /\ ret.numChunks <= 1)
                  => ret.blockChunks = <<DOMAIN primaryBlocks>>

\* ---------------------------------------------------------------------------
\* C28: after any sequence of setPrimaryBlocks, setParentBlocks and
\* setChildToParentBlocks calls that ends with a successful
\* setChildToParentBlocks, every key of childToParentBlocks is a key of the
\* current primaryBlocks and every member of its value sets is a key of the
\* current parentBlocks: entries of an earlier call do not survive as stale
\* keys or dangling parent references (lines 236-261).
C28_NoStaleLinks ==
    (ret.op = "setChildToParentBlocks" /\ ret.status = "ok")
        => /\ DOMAIN childToParentBlocks \subseteq DOMAIN primaryBlocks
           /\ \A child \in DOMAIN childToParentBlocks :
                  childToParentBlocks[child] \subseteq DOMAIN parentBlocks

\* ---------------------------------------------------------------------------
\* C29: for every numChunks >= 2 and every primaryBlocks map that holds at
\* least numChunks blocks of positive size, every chunk returned by
\* getChunkBlocks contains at least one primary block (lines 292-326).
\* the last plan is one of at least as many blocks of positive size as chunks
PlannedEnoughBlocks ==
    /\ Planned
    /\ Cardinality({b \in DOMAIN primaryBlocks : primaryBlocks[b] > 0}) >= ret.numChunks

\* every chunk of the last plan holds a primary block
NoEmptyChunk ==
    \A i \in DOMAIN ret.blockChunks :
        ret.blockChunks[i] \cap DOMAIN primaryBlocks # {}

C29_EveryChunkGetsABlock == PlannedEnoughBlocks => NoEmptyChunk

\* C29, amended: ... and whose largest block is not larger than the target
\* floor(totalPrimarySize / numChunks), every chunk returned by getChunkBlocks
\* contains at least one primary block; a block larger than the target fits no
\* slot, and the round robin hands the leftover blocks out from slot 0 again,
\* so a slot can stay empty: {A: 2, B: 1} planned into 2 chunks gives
\* [{A, B}, {}].
C29_EveryChunkGetsABlockUnderTarget ==
    (/\ PlannedEnoughBlocks
     /\ \A b \in DOMAIN primaryBlocks :
            primaryBlocks[b] <= SumValues(primaryBlocks) \div ret.numChunks)
        => NoEmptyChunk

\* three blocks of size 2 planned into 2 chunks of target 3: each slot takes
\* one block in the first-fit pass and the third goes to slot 0
C29_Witness ==
    /\ PlannedEnoughBlocks
    /\ ret.numChunks = 2
    /\ ret.chunkSize = 3
    /\ \A b \in DOMAIN primaryBlocks : primaryBlocks[b] = 2
    /\ Len(ret.leftovers) = 1
    /\ Cardinality(ret.blockChunks[1]) = 2
    /\ Cardinality(ret.blockChunks[2]) = 1

\* ---------------------------------------------------------------------------
\* C30: after construction of a Workflow from any request document, every
\* non-empty campaign name that appears in a record of dataCampaignMap is a
\* member of the campaigns set, including a top-level campaign that a chain
\* task inherits because it declares no campaign of its own (lines 99-118).
C30_RecordCampaignsInCampaigns ==
    (ret.op = "__init__" /\ ret.status = "ok")
        => \A i \in DOMAIN dataCampaignMap :
               dataCampaignMap[i].campaign \notin {None, ""}
                   => dataCampaignMap[i].campaign \in campaigns

(***************************************************************************)
(* WMRuntime/Monitors/PerformanceMonitor.py: one PerformanceMonitor and    *)
(* the job it watches.  The job runs its steps one after the other; the    *)
(* monitor is told of jobStart, stepStart and stepEnd and its              *)
(* periodicUpdate runs at any time in between.  A step process writes its  *)
(* PID to process.id in the directory of its step when it starts.          *)
(***************************************************************************)
\* the clock of the job runs from 0 to MaxTime
MaxTime == 3
\* the step process has a PSS of at most MaxMB megabytes
MaxMB == 2

\* Python's None in a field that otherwise holds a number
NoneNumber == -1
\* line 226: the bytes of a megabyte, 1000**2
MegaByte == 1000000
\* line 226: pss = int(stepMemInfo.pss) // (1000**2)
PssMB(bytes) == bytes \div MegaByte
\* what memory_full_info().pss can report, in bytes
PssBytes == {m * MegaByte : m \in 0..MaxMB} \cup {MegaByte - 1, MegaByte + 1}

\* lines 186-188
errorCodeLookup == ("PSS" :> 50660) @@ ("Wallclock time" :> 50664) @@ ("" :> 99999)

\* the arguments initMonitor can get: a limit in MB, timeouts in clock ticks
PssArgs == {NoneNumber, 1}
SoftTimeoutArgs == {NoneNumber, 1}
HardTimeoutArgs == {NoneNumber, 2}
\* line 120: the default of WatchStepTypes
DefaultWatchStepTypes == {"CMSSW", "PerfTest"}
\* the steps of the job: the name and the type WMStepHelper reports
Steps == {[name |-> "cmsRun1", type |-> "CMSSW"],
          [name |-> "logArch1", type |-> "LogArchive"]}
\* no step helper before the first stepStart
NoStep == [name |-> None, type |-> None]

\* the Workflow fields hold nothing in the runtime of a job
NoWorkflow ==
    /\ data = None /\ inputDataset = None /\ parentDataset = None
    /\ pileupDatasets = None /\ campaigns = None /\ dataCampaignMap = None
    /\ primaryBlocks = None /\ parentBlocks = None /\ childToParentBlocks = None
    /\ secondarySummaries = None /\ linkCalls = 0
workflowVars == <<modelVars, parentDataset, dataCampaignMap, inventoryVars, linkCalls>>

\* what a call on the monitor did: the defaults are those of a call that
\* returns at once; phase, proc, currentTime and killRetry are the state the
\* call found
MonitorOutcome(op) ==
    [op |-> op, status |-> "ok", phase |-> job.phase, proc |-> job.proc,
     currentTime |-> job.now, killRetry |-> monitor.killRetry, readPID |-> FALSE, measured |-> FALSE, pss |-> 0,
     killProc |-> FALSE, killHard |-> FALSE, reason |-> "",
     reportAttempt |-> FALSE, signals |-> <<>>]

\* lines 85-104: PerformanceMonitor.__init__, and a job that has not started
InitMonitor ==
    /\ NoWorkflow
    /\ monitor = [currentStepSpace |-> None, currentStepName |-> None,
                  maxPSS |-> NoneNumber, softTimeout |-> NoneNumber,
                  hardTimeout |-> NoneNumber, startTime |-> NoneNumber,
                  killRetry |-> FALSE, watchStepTypes |-> {},
                  disableStep |-> FALSE, stepHelper |-> NoStep]
    /\ job = [phase |-> "new", now |-> 0, proc |-> "none", report |-> <<>>]
    /\ ret = [op |-> "__init__", status |-> "ok", phase |-> "new", proc |-> "none",
              currentTime |-> 0, killRetry |-> FALSE, readPID |-> FALSE, measured |-> FALSE, pss |-> 0,
              killProc |-> FALSE, killHard |-> FALSE, reason |-> "",
              reportAttempt |-> FALSE, signals |-> <<>>]

\* lines 110-129: initMonitor(task, job, logPath, args)
initMonitor(maxPSS, softTimeout, hardTimeout) ==
    /\ job.phase = "new"
    /\ monitor' = [monitor EXCEPT !.watchStepTypes = DefaultWatchStepTypes,
                                  !.maxPSS = maxPSS,
                                  !.softTimeout = softTimeout,
                                  !.hardTimeout = hardTimeout]
    /\ job' = [job EXCEPT !.phase = "ready"]
    /\ ret' = MonitorOutcome("initMonitor")
    /\ UNCHANGED workflowVars

\* lines 131-139: jobStart(task)
jobStart ==
    /\ job.phase = "ready"
    /\ monitor' = [monitor EXCEPT !.startTime = job.now]
    /\ job' = [job EXCEPT !.phase = "job"]
    /\ ret' = MonitorOutcome("jobStart")
    /\ UNCHANGED workflowVars

\* lines 141-160: stepStart(step); the process of the step is not started yet
stepStart(step) ==
    /\ job.phase \in {"job", "between"}
    /\ monitor' = [monitor EXCEPT !.stepHelper = step,
                                  !.currentStepName = step.name,
                                  !.currentStepSpace = None,
                                  !.disableStep = step.type \notin monitor.watchStepTypes]
    /\ job' = [job EXCEPT !.phase = "step", !.proc = "none"]
    /\ ret' = MonitorOutcome("stepStart")
    /\ UNCHANGED workflowVars

\* lines 162-176: stepEnd(step, stepReport); the step has no running process
stepEnd ==
    /\ job.phase = "step"
    /\ job.proc # "running"
    /\ monitor' = IF ~monitor.disableStep
                  THEN monitor
                  ELSE [monitor EXCEPT !.currentStepName = None,
                                       !.currentStepSpace = None]
    /\ job' = [job EXCEPT !.phase = "between"]
    /\ ret' = MonitorOutcome("stepEnd")
    /\ UNCHANGED workflowVars

\* the executor starts the process of the step, which writes process.id
processStarts ==
    /\ job.phase = "step"
    /\ job.proc = "none"
    /\ job' = [job EXCEPT !.proc = "running"]
    /\ UNCHANGED <<monitor, ret, workflowVars>>

\* the process of the step exits, by itself or on a signal
processExits ==
    /\ job.proc = "running"
    /\ job' = [job EXCEPT !.proc = "exited"]
    /\ UNCHANGED <<monitor, ret, workflowVars>>

\* the system gives the PID of the exited process to another process
pidReused ==
    /\ job.proc = "exited"
    /\ job' = [job EXCEPT !.proc = "reused"]
    /\ UNCHANGED <<monitor, ret, workflowVars>>

\* time.time() advances
tick ==
    /\ job.now < MaxTime
    /\ job' = [job EXCEPT !.now = job.now + 1]
    /\ UNCHANGED <<monitor, ret, workflowVars>>

\* lines 233-247: what the limits say about the measured PSS and the time
Limits(m, pss, currentTime) ==
    IF m.maxPSS # NoneNumber /\ pss >= m.maxPSS
    THEN [killProc |-> TRUE, killHard |-> FALSE, reason |-> "PSS"]
    ELSE IF m.hardTimeout # NoneNumber /\ m.softTimeout # NoneNumber
    THEN [killProc |-> currentTime - m.startTime > m.softTimeout,
          killHard |-> currentTime - m.startTime > m.hardTimeout,
          reason |-> IF currentTime - m.startTime > m.softTimeout
                     THEN "Wallclock time" ELSE ""]
    ELSE [killProc |-> FALSE, killHard |-> FALSE, reason |-> ""]

\* the report is written at every kill attempt
WritesReportAlways(killRetry) == TRUE

\* line 254: the performance error is persisted only before the first kill
WritesReport(killRetry) == ~killRetry

\* the soft signal is sent whenever the hard timeout is not exceeded
KillSignalsForgetful(killHard, killRetry, raises) ==
    LET first == IF ~killHard THEN "SIGUSR2" ELSE "SIGTERM" IN
    IF raises = 0 THEN <<first>> ELSE <<first, "SIGTERM">>

\* lines 281-290: the os.kill calls of one kill attempt; raises counts the
\* calls that raise: SIGTERM is sent from the except clause after the first
KillSignals(killHard, killRetry, raises) ==
    LET first == IF ~killHard /\ ~killRetry THEN "SIGUSR2" ELSE "SIGTERM" IN
    IF raises = 0 THEN <<first>> ELSE <<first, "SIGTERM">>

\* lines 178-294: periodicUpdate.  isRunning is what is_running() answers for
\* a live PID, bytes the measured PSS, saved whether the job report could be
\* written, raises how many os.kill calls raise.
Update(m, j, isRunning, bytes, saved, raises) ==
    LET out == MonitorOutcome("periodicUpdate")
        same == [monitor |-> m, job |-> j, ret |-> out]
    IN
    IF m.disableStep THEN same
    ELSE IF m.currentStepName = None THEN same
    ELSE
      LET m1 == IF m.currentStepSpace = None
                THEN [m EXCEPT !.currentStepSpace = m.stepHelper.name] ELSE m
          read == [out EXCEPT !.readPID = TRUE]
      IN
      \* lines 203-207: no process.id file in the directory of the step
      IF j.proc = "none" THEN [monitor |-> m1, job |-> j, ret |-> read]
      \* line 211: psutil.Process raises NoSuchProcess for a PID that is gone
      ELSE IF j.proc = "exited"
      THEN [monitor |-> m1, job |-> j, ret |-> [read EXCEPT !.status = "NoSuchProcess"]]
      ELSE IF ~isRunning THEN [monitor |-> m1, job |-> j, ret |-> read]
      ELSE
        LET pss == PssMB(bytes)
            lim == Limits(m1, pss, j.now)
            seen == [read EXCEPT !.measured = TRUE, !.pss = pss,
                                 !.killProc = lim.killProc, !.killHard = lim.killHard,
                                 !.reason = lim.reason]
        IN
        IF ~lim.killProc THEN [monitor |-> m1, job |-> j, ret |-> seen]
        ELSE
          LET writes == WritesReport(m1.killRetry)
              report == IF writes /\ saved
                        THEN Append(j.report, errorCodeLookup[lim.reason])
                        ELSE j.report
          IN [monitor |-> [m1 EXCEPT !.killRetry = TRUE],
              job |-> [j EXCEPT !.report = report],
              ret |-> [seen EXCEPT
                         !.reportAttempt = writes,
                         !.signals = KillSignals(lim.killHard, m1.killRetry, raises),
                         !.status = IF raises = 2 THEN "OSError" ELSE "ok"]]

periodicUpdate ==
    /\ \E isRunning \in BOOLEAN, bytes \in PssBytes, saved \in BOOLEAN, raises \in 0..2 :
         LET u == Update(monitor, job, isRunning, bytes, saved, raises) IN
         /\ monitor' = u.monitor
         /\ job' = u.job
         /\ ret' = u.ret
    /\ UNCHANGED workflowVars

NextMonitor ==
    \/ \E maxPSS \in PssArgs, softTimeout \in SoftTimeoutArgs,
          hardTimeout \in HardTimeoutArgs :
           initMonitor(maxPSS, softTimeout, hardTimeout)
    \/ jobStart
    \/ \E step \in Steps : stepStart(step)
    \/ stepEnd
    \/ processStarts
    \/ processExits
    \/ pidReused
    \/ tick
    \/ periodicUpdate

SpecMonitor == InitMonitor /\ [][NextMonitor]_vars

(***************************************************************************)
(* Properties of the PerformanceMonitor.                                   *)
(***************************************************************************)
\* the last call was a periodicUpdate that attempted to kill the step
KillAttempt == ret.op = "periodicUpdate" /\ ret.signals # <<>>
\* the measured PSS of the last update is at or over the configured maxPSS
PssExceeded == monitor.maxPSS # NoneNumber /\ ret.pss >= monitor.maxPSS
\* at the last call more time than limit had passed since jobStart
TimeExceeded(limit) ==
    limit # NoneNumber /\ ret.currentTime - monitor.startTime > limit

\* C23: over any sequence of periodicUpdate calls on one PerformanceMonitor in
\* which the job keeps violating its limits, the PerformanceError entry is added
\* to the job report at most once: after the first kill attempt (killRetry is
\* set) no later periodicUpdate writes the report again (lines 253-294).
C23_ReportWrittenOnce ==
    [][/\ Len(job'.report) <= 1
       /\ monitor.killRetry => job'.report = job.report]_vars

\* a second kill attempt, on a job that still exceeds a limit, after the first
\* one has written the PerformanceError entry
C23_Witness ==
    /\ KillAttempt
    /\ ret.killRetry
    /\ ret.killProc
    /\ ~ret.reportAttempt
    /\ Len(job.report) = 1

\* C24: the kill signals escalate: the first kill attempt sends the soft signal
\* SIGUSR2 unless the hard timeout is already exceeded, in which case it sends
\* SIGTERM; every later kill attempt of the same monitor sends SIGTERM, because
\* killRetry is set after the first attempt and is never reset (lines 100 and
\* 281-294).
LaterAttemptsHard ==
    (KillAttempt /\ ret.killRetry)
        => \A i \in DOMAIN ret.signals : ret.signals[i] = "SIGTERM"

FirstAttemptByHardTimeout ==
    (KillAttempt /\ ~ret.killRetry)
        => ret.signals[1] = IF TimeExceeded(monitor.hardTimeout)
                            THEN "SIGTERM" ELSE "SIGUSR2"

C24_SignalsEscalate ==
    [][/\ monitor.killRetry => monitor'.killRetry
       /\ KillAttempt' => monitor'.killRetry
       /\ FirstAttemptByHardTimeout'
       /\ LaterAttemptsHard']_vars

\* C24, amended: the first kill attempt sends SIGUSR2 unless that update found
\* the hard timeout exceeded, which it tests only when the PSS limit is not
\* violated and both timeouts are configured; then it sends SIGTERM.  A first
\* kill for a PSS violation sends SIGUSR2 also after the hard timeout.  Every
\* later kill attempt sends SIGTERM only; killRetry is set by every kill
\* attempt and never reset.
FirstAttemptByTestedHardTimeout ==
    (KillAttempt /\ ~ret.killRetry)
        => ret.signals[1] = IF /\ ~PssExceeded
                               /\ monitor.softTimeout # NoneNumber
                               /\ TimeExceeded(monitor.hardTimeout)
                            THEN "SIGTERM" ELSE "SIGUSR2"

C24_SignalsEscalateAfterFirst ==
    [][/\ monitor.killRetry => monitor'.killRetry
       /\ KillAttempt' => monitor'.killRetry
       /\ FirstAttemptByTestedHardTimeout'
       /\ LaterAttemptsHard']_vars

\* a later kill attempt sends SIGTERM although this update did not find the
\* hard timeout exceeded
C24_Witness ==
    /\ KillAttempt
    /\ ret.killRetry
    /\ ~ret.killHard
    /\ ret.signals = <<"SIGTERM">>

\* C25: between the stepEnd of a step and the next stepStart every
\* periodicUpdate returns without reading a step PID, writing the job report
\* or sending a signal, for watched step types as well as for unwatched ones
\* (lines 162-176 and 190-201).
C25_IdleBetweenSteps ==
    (ret.op = "periodicUpdate" /\ ret.phase = "between")
        => /\ ~ret.readPID
           /\ ~ret.reportAttempt
           /\ ret.signals = <<>>

\* C26: whenever periodicUpdate runs during a watched step whose process is
\* alive and either the measured PSS is at least the configured maxPSS or the
\* elapsed wallclock time since jobStart exceeds the configured softTimeout, a
\* termination signal is sent to the step process in that update, whichever of
\* the limits are configured (lines 6-8 and 233-251).
C26_ViolationIsSignalled ==
    (/\ ret.op = "periodicUpdate"
     /\ ret.phase = "step"
     /\ ~monitor.disableStep
     /\ ret.proc = "running"
     /\ ret.measured
     /\ PssExceeded \/ TimeExceeded(monitor.softTimeout))
        => ret.signals # <<>>

====
